---- MODULE Spec2Model ----
(***************************************************************************)
(* Voice-session orchestration of the chat client.                         *)
(*                                                                         *)
(* The model follows src/src/functions/externalQueries.ts                  *)
(* (connectWebSocket, sendSDPToServer, disconnectWebSocket and the data    *)
(* channel callbacks registered by connectWebSocket) and the handlers of   *)
(* src/src/components/camera/Camera.tsx that call them (handleVoicePress,  *)
(* addMessage).                                                            *)
(*                                                                         *)
(* connectStatus, peerConnection and dataChannel are React state of the    *)
(* chat screen; localStreamRef and messageCounter are refs.  A handler     *)
(* reads the values of the render in which it was created, and passes them *)
(* as arguments: connectWebSocket tests the connectStatus it was given and *)
(* disconnectWebSocket closes the handles it was given.  A state update   *)
(* made by a handler is rendered before the next handler is dispatched, so *)
(* a handler that starts sees the committed state; an async function that  *)
(* is suspended at an await keeps the arguments it was called with.        *)
(*                                                                         *)
(* Every `await` of connectWebSocket is a suspension point: the part of    *)
(* the function between two awaits is one action, and the outcome of the   *)
(* awaited call (resolved value or rejection) is the action's input.       *)
(* disconnectWebSocket has no await and is one action.                     *)
(***************************************************************************)
EXTENDS Integers, Sequences, FiniteSets, TLC

\* ------------------------------------------------------------------ bounds
\* connectWebSocket invocations that pass the idle guard
MaxConnects == 2
\* injected faults: teardown steps that raise, data-channel error events
MaxFaults == 1
\* direct calls of the exported connectWebSocket / disconnectWebSocket
MaxCalls == 2

\* ------------------------------------------------------------------ state
VARIABLES
  connectStatus,   \* Camera.tsx useState<ConnectionStatus>
  peerConnection,  \* Camera.tsx useState<RTCPeerConnection | null>, 0 = null
  dataChannel,     \* Camera.tsx useState<RTCDataChannel | null>,    0 = null
  localStreamRef,  \* Camera.tsx useRef<MediaStream | null>,         0 = null
  messages,        \* Camera.tsx useState<Message[]>
  messageCounter,  \* Camera.tsx useRef(0)
  inCall,          \* InCallManager audio routing started
  pcs,             \* the RTCPeerConnection objects, by id
  channels,        \* readyState of the RTCDataChannel objects, by id
  streams,         \* the local MediaStream objects, by id
  sent,            \* what has been sent on the data channels
  tasks,           \* the connectWebSocket invocations past the idle guard
  faults,          \* number of faults injected so far
  escaped,         \* an exception left a handler
  calls,           \* direct calls of the exported functions so far
  last,            \* the handler or continuation that ran last
  inputText,       \* Camera.tsx useState(''), the text field of the chat input
  orderState,      \* Camera.tsx useState<{selectedItems?, ...}>({})
  jobs,            \* the invocations of the chat handlers, in start order
  probe            \* the text a classifier function is applied to

vars == <<connectStatus, peerConnection, dataChannel, localStreamRef,
          messages, messageCounter, inCall, pcs, channels, streams, sent,
          tasks, faults, escaped, calls, last,
          inputText, orderState, jobs, probe>>

\* the state of the chat input, the order flow and the function under test
chatVars == <<inputText, orderState, jobs, probe>>

\* ConnectionStatus (webRTCTypes): 'notConnect' | 'connecting' | 'connected'
ConnectionStatus == {"notConnect", "connecting", "connected"}

Ids == 1..MaxConnects

\* the steps of connectWebSocket, in source order
AllSteps == <<"permission", "credential", "peerConnection", "media",
              "dataChannel", "offer", "localDescription", "sdpExchange",
              "remoteDescription">>

\* the user-visible texts connectWebSocket appends on failure
MsgPermission == "Microphone permission required for voice chat"
MsgMicrophone == "Failed to access microphone"
MsgAudio == "Failed to create audio connection"
MsgLocal == "Connection failed"
MsgAuth == "Authentication failed"
MsgCatch == "Connection error"
MsgChannelError == "Data channel error"
MsgDisconnect == "Error disconnecting"

ConnectFailureTexts ==
  {MsgPermission, MsgMicrophone, MsgAudio, MsgLocal, MsgAuth, MsgCatch}

\* ------------------------------------------------------------------ chat log
\* addMessage: the counter is incremented and the message appended
NewMessage(text, isUser, type) ==
  [id |-> messageCounter + 1, text |-> text, isUser |-> isUser, type |-> type]

AddMessage(text, isUser, type) ==
  /\ messageCounter' = messageCounter + 1
  /\ messages' = Append(messages, NewMessage(text, isUser, type))

\* ------------------------------------------------------------------ helpers
Running(t) == t \in DOMAIN tasks /\ tasks[t].pc # "done"

Note(op, arg, t, out) == [op |-> op, arg |-> arg, task |-> t, out |-> out]

\* an optional value of the source: {} is undefined, {v} is the value v
Undefined == {}
Some(v) == {v}
Value(o) == CHOOSE v \in o : TRUE

\* useState<{selectedItems?, awaitingResponse?, userResponses?,
\* lastSelectedItems?}>({}): every field is undefined
EmptyOrderState ==
  [selectedItems |-> Undefined, lastSelectedItems |-> Undefined,
   awaitingResponse |-> Undefined, userResponses |-> Undefined]

\* the voice session after construction
InitSession ==
  /\ connectStatus = "notConnect"
  /\ peerConnection = 0
  /\ dataChannel = 0
  /\ localStreamRef = 0
  /\ messages = <<>>
  /\ messageCounter = 0
  /\ inCall = FALSE
  /\ pcs = [i \in Ids |-> "none"]
  /\ channels = [i \in Ids |-> "none"]
  /\ streams = [i \in Ids |-> "none"]
  /\ sent = <<>>
  /\ tasks = <<>>
  /\ faults = 0
  /\ escaped = FALSE
  /\ calls = 0
  /\ last = Note("init", "-", 0, "-")

\* the chat input and the order flow after construction
InitScreen ==
  /\ inputText = ""
  /\ orderState = EmptyOrderState
  /\ jobs = <<>>

Init ==
  /\ InitSession
  /\ InitScreen
  /\ probe = ""

\* ------------------------------------------------------------------ connect
\* A connectWebSocket invocation that passed the guard: where it is suspended,
\* whether the credential it fetched carries client_secret.value, the steps
\* that have succeeded so far, how it ended, and whether disconnectWebSocket or
\* a channel's onclose set the status to notConnect while it was suspended.
NewTask ==
  [pc |-> "perm", secret |-> FALSE, steps |-> <<>>, result |-> "pending",
   torn |-> FALSE]

\* the suspended invocations see the status reset under them
Torn == [t \in DOMAIN tasks |->
           IF tasks[t].pc # "done" THEN [tasks[t] EXCEPT !.torn = TRUE]
                                   ELSE tasks[t]]

Step(t, names, nextpc) ==
  [tasks EXCEPT ![t].pc = nextpc, ![t].steps = @ \o names]

\* every failure exit: setConnectStatus('notConnect'); addMessage(text); return
Fail(t, text) ==
  /\ connectStatus' = "notConnect"
  /\ AddMessage(text, FALSE, "text")
  /\ tasks' = [tasks EXCEPT ![t].pc = "done", ![t].result = "failed"]

\* (mutant) the guard lets a call through while the status is connecting
ConnectWebSocketWeakGuard(status) ==
  IF status = "connected"
    THEN UNCHANGED <<connectStatus, tasks>>
    ELSE /\ Len(tasks) < MaxConnects
         /\ connectStatus' = "connecting"
         /\ tasks' = Append(tasks, NewTask)

\* connectWebSocket up to its first await: the guard on the status that was
\* passed in, setConnectStatus('connecting'), the call of requestAudioPermission
ConnectWebSocket(status) ==
  IF status # "notConnect"
    THEN UNCHANGED <<connectStatus, tasks>>
    ELSE /\ Len(tasks) < MaxConnects
         /\ connectStatus' = "connecting"
         /\ tasks' = Append(tasks, NewTask)

\* the caller of the exported connectWebSocket passes the status it rendered
Connect ==
  /\ ConnectWebSocket(connectStatus)
  /\ last' = Note("connect", connectStatus, 0,
                  IF connectStatus = "notConnect" THEN "started" ELSE "ignored")
  /\ UNCHANGED <<peerConnection, dataChannel, localStreamRef, messages,
                 messageCounter, inCall, pcs, channels, streams, sent, faults,
                 escaped, chatVars>>

\* (mutant) the denial branch lacks its return: the message is appended and
\* the function goes on to fetch the credential
ResumePermissionNoReturn(t, granted) ==
  /\ Running(t) /\ tasks[t].pc = "perm"
  /\ IF granted
       THEN UNCHANGED <<connectStatus, messages, messageCounter>>
       ELSE /\ connectStatus' = "notConnect"
            /\ AddMessage(MsgPermission, FALSE, "text")
  /\ tasks' = Step(t, <<"permission">>, "key")
  /\ last' = Note("resume", "perm", t, IF granted THEN "ok" ELSE "denied")
  /\ UNCHANGED <<peerConnection, dataChannel, localStreamRef, inCall, pcs,
                 channels, streams, sent, faults, escaped, calls, chatVars>>

\* await requestAudioPermission() returns
ResumePermission(t, granted) ==
  /\ Running(t) /\ tasks[t].pc = "perm"
  /\ IF granted
       THEN /\ tasks' = Step(t, <<"permission">>, "key")
            /\ UNCHANGED <<connectStatus, messages, messageCounter>>
       ELSE Fail(t, MsgPermission)
  /\ last' = Note("resume", "perm", t, IF granted THEN "ok" ELSE "denied")
  /\ UNCHANGED <<peerConnection, dataChannel, localStreamRef, inCall, pcs,
                 channels, streams, sent, faults, escaped, calls, chatVars>>

\* await getOpenAIWebSocketSecretKey() returns or throws; on return the
\* RTCPeerConnection is constructed and getUserMedia is called
ResumeCredential(t, o) ==
  /\ Running(t) /\ tasks[t].pc = "key"
  /\ IF o = "throw"
       THEN /\ Fail(t, MsgCatch)
            /\ UNCHANGED pcs
       ELSE /\ tasks' = [Step(t, <<"credential", "peerConnection">>, "media")
                           EXCEPT ![t].secret = (o = "secret")]
            /\ pcs' = [pcs EXCEPT ![t] = "open"]
            /\ UNCHANGED <<connectStatus, messages, messageCounter>>
  /\ last' = Note("resume", "key", t, IF o = "throw" THEN "throw" ELSE "ok")
  /\ UNCHANGED <<peerConnection, dataChannel, localStreamRef, inCall,
                 channels, streams, sent, faults, escaped, calls, chatVars>>

\* await mediaDevices.getUserMedia() returns or throws; on a stream with
\* tracks: addTrack, localStreamRef.current = localStream, createDataChannel,
\* the four channel callbacks, setPeerConnection, setDataChannel, createOffer
ResumeMedia(t, o) ==
  /\ Running(t) /\ tasks[t].pc = "media"
  /\ CASE o = "throw" ->
            /\ Fail(t, MsgCatch)
            /\ UNCHANGED <<peerConnection, dataChannel, localStreamRef,
                           channels, streams>>
       [] o = "noTracks" ->
            /\ Fail(t, MsgMicrophone)
            /\ UNCHANGED <<peerConnection, dataChannel, localStreamRef,
                           channels, streams>>
       [] o = "addTrackThrows" ->
            /\ Fail(t, MsgCatch)
            /\ streams' = [streams EXCEPT ![t] = "live"]
            /\ UNCHANGED <<peerConnection, dataChannel, localStreamRef,
                           channels>>
       [] o = "createChannelThrows" ->
            /\ Fail(t, MsgCatch)
            /\ streams' = [streams EXCEPT ![t] = "live"]
            /\ localStreamRef' = t
            /\ UNCHANGED <<peerConnection, dataChannel, channels>>
       [] o = "ok" ->
            /\ streams' = [streams EXCEPT ![t] = "live"]
            /\ localStreamRef' = t
            /\ channels' = [channels EXCEPT ![t] = "connecting"]
            /\ peerConnection' = t
            /\ dataChannel' = t
            /\ tasks' = Step(t, <<"media", "dataChannel">>, "offer")
            /\ UNCHANGED <<connectStatus, messages, messageCounter>>
  /\ last' = Note("resume", "media", t, o)
  /\ UNCHANGED <<inCall, pcs, sent, faults, escaped, calls, chatVars>>

\* A call on a peer connection that has been closed does not succeed.
PcUsable(t) == pcs[t] = "open"

\* await pc.createOffer() returns or throws; a valid offer is passed to
\* pc.setLocalDescription
ResumeOffer(t, o) ==
  /\ Running(t) /\ tasks[t].pc = "offer"
  /\ CASE o = "throw" -> Fail(t, MsgCatch)
       [] o = "invalid" -> PcUsable(t) /\ Fail(t, MsgAudio)
       [] o = "valid" ->
            /\ PcUsable(t)
            /\ tasks' = Step(t, <<"offer">>, "local")
            /\ UNCHANGED <<connectStatus, messages, messageCounter>>
  /\ last' = Note("resume", "offer", t, o)
  /\ UNCHANGED <<peerConnection, dataChannel, localStreamRef, inCall, pcs,
                 channels, streams, sent, faults, escaped, calls, chatVars>>

\* (mutant) the catch around setLocalDescription lacks its return: after the
\* failure message the function goes on to send the offer
ResumeLocalDescriptionNoReturn(t, o) ==
  /\ Running(t) /\ tasks[t].pc = "local"
  /\ CASE o = "throw" /\ tasks[t].secret ->
            /\ connectStatus' = "notConnect"
            /\ AddMessage(MsgLocal, FALSE, "text")
            /\ tasks' = Step(t, <<>>, "sdp")
       [] o = "throw" /\ ~tasks[t].secret -> Fail(t, MsgLocal)
       [] o = "ok" /\ ~tasks[t].secret -> PcUsable(t) /\ Fail(t, MsgAuth)
       [] o = "ok" /\ tasks[t].secret ->
            /\ PcUsable(t)
            /\ tasks' = Step(t, <<"localDescription">>, "sdp")
            /\ UNCHANGED <<connectStatus, messages, messageCounter>>
  /\ last' = Note("resume", "local", t,
                  IF o = "ok" /\ ~tasks[t].secret THEN "noSecret" ELSE o)
  /\ UNCHANGED <<peerConnection, dataChannel, localStreamRef, inCall, pcs,
                 channels, streams, sent, faults, escaped, calls, chatVars>>

\* await pc.setLocalDescription() returns or throws (its own try/catch); then
\* the client secret is read and, if present, sendSDPToServer starts its fetch
ResumeLocalDescription(t, o) ==
  /\ Running(t) /\ tasks[t].pc = "local"
  /\ CASE o = "throw" -> Fail(t, MsgLocal)
       [] o = "ok" /\ ~tasks[t].secret -> PcUsable(t) /\ Fail(t, MsgAuth)
       [] o = "ok" /\ tasks[t].secret ->
            /\ PcUsable(t)
            /\ tasks' = Step(t, <<"localDescription">>, "sdp")
            /\ UNCHANGED <<connectStatus, messages, messageCounter>>
  /\ last' = Note("resume", "local", t,
                  IF o = "ok" /\ ~tasks[t].secret THEN "noSecret" ELSE o)
  /\ UNCHANGED <<peerConnection, dataChannel, localStreamRef, inCall, pcs,
                 channels, streams, sent, faults, escaped, calls, chatVars>>

\* sendSDPToServer: await fetch() and await response.text() return, or one of
\* them throws, or the response is not ok; the answer is passed to
\* pc.setRemoteDescription
ResumeSdpExchange(t, o) ==
  /\ Running(t) /\ tasks[t].pc = "sdp"
  /\ CASE o = "fail" -> Fail(t, MsgCatch)
       [] o = "ok" ->
            /\ tasks' = Step(t, <<"sdpExchange">>, "remote")
            /\ UNCHANGED <<connectStatus, messages, messageCounter>>
  /\ last' = Note("resume", "sdp", t, o)
  /\ UNCHANGED <<peerConnection, dataChannel, localStreamRef, inCall, pcs,
                 channels, streams, sent, faults, escaped, calls, chatVars>>

\* (mutant) the commit is skipped when the status was reset during the call
ResumeRemoteDescriptionChecked(t, o) ==
  /\ Running(t) /\ tasks[t].pc = "remote"
  /\ CASE o = "throw" -> Fail(t, MsgCatch)
       [] o = "ok" ->
            /\ PcUsable(t)
            /\ connectStatus' =
                 IF tasks[t].torn THEN connectStatus ELSE "connected"
            /\ tasks' = [Step(t, <<"remoteDescription">>, "done")
                           EXCEPT ![t].result = "connected"]
            /\ UNCHANGED <<messages, messageCounter>>
  /\ last' = Note("resume", "remote", t, o)
  /\ UNCHANGED <<peerConnection, dataChannel, localStreamRef, inCall, pcs,
                 channels, streams, sent, faults, escaped, calls, chatVars>>

\* sendSDPToServer: await pc.setRemoteDescription() returns or throws; on
\* return connectWebSocket calls setConnectStatus('connected')
ResumeRemoteDescription(t, o) ==
  /\ Running(t) /\ tasks[t].pc = "remote"
  /\ CASE o = "throw" -> Fail(t, MsgCatch)
       [] o = "ok" ->
            /\ PcUsable(t)
            /\ connectStatus' = "connected"
            /\ tasks' = [Step(t, <<"remoteDescription">>, "done")
                           EXCEPT ![t].result = "connected"]
            /\ UNCHANGED <<messages, messageCounter>>
  /\ last' = Note("resume", "remote", t, o)
  /\ UNCHANGED <<peerConnection, dataChannel, localStreamRef, inCall, pcs,
                 channels, streams, sent, faults, escaped, calls, chatVars>>

\* --------------------------------------------------------------- disconnect
\* the teardown steps of disconnectWebSocket in source order; "none": no step
\* raises
Rank(err) ==
  CASE err = "trackStop" -> 1
    [] err = "channelClose" -> 2
    [] err = "pcClose" -> 3
    [] err = "inCallStop" -> 4
    [] err = "none" -> 5

TeardownErrors == {"none", "trackStop", "channelClose", "pcClose", "inCallStop"}

\* (mutant) no try/catch: the error of a teardown step leaves the function
DisconnectWebSocketNoCatch(pcArg, dcArg, err) ==
  /\ err # "none" => faults < MaxFaults
  /\ err = "trackStop" => localStreamRef # 0
  /\ err = "channelClose" => dcArg # 0
  /\ err = "pcClose" => pcArg # 0
  /\ IF Rank(err) > 1 /\ localStreamRef # 0
       THEN /\ streams' = [streams EXCEPT ![localStreamRef] = "stopped"]
            /\ localStreamRef' = 0
       ELSE UNCHANGED <<streams, localStreamRef>>
  /\ IF Rank(err) > 2 /\ dcArg # 0
       THEN /\ channels' = [channels EXCEPT ![dcArg] =
                              IF @ \in {"connecting", "open"} THEN "closing" ELSE @]
            /\ dataChannel' = 0
       ELSE UNCHANGED <<channels, dataChannel>>
  /\ IF Rank(err) > 3 /\ pcArg # 0
       THEN /\ pcs' = [pcs EXCEPT ![pcArg] = "closed"]
            /\ peerConnection' = 0
       ELSE UNCHANGED <<pcs, peerConnection>>
  /\ inCall' = IF Rank(err) > 4 THEN FALSE ELSE inCall
  /\ connectStatus' = IF err = "none" THEN "notConnect" ELSE connectStatus
  /\ UNCHANGED <<messages, messageCounter>>
  /\ faults' = IF err = "none" THEN faults ELSE faults + 1
  /\ escaped' = (escaped \/ err # "none")

\* disconnectWebSocket(peerConnection, dataChannel, localStreamRef, ...): the
\* whole body is one try block; the step `err` raises, the steps before it
\* have run, the steps after it have not, and the catch appends one message
DisconnectWebSocket(pcArg, dcArg, err) ==
  /\ err # "none" => faults < MaxFaults
  /\ err = "trackStop" => localStreamRef # 0
  /\ err = "channelClose" => dcArg # 0
  /\ err = "pcClose" => pcArg # 0
  /\ IF Rank(err) > 1 /\ localStreamRef # 0
       THEN /\ streams' = [streams EXCEPT ![localStreamRef] = "stopped"]
            /\ localStreamRef' = 0
       ELSE UNCHANGED <<streams, localStreamRef>>
  /\ IF Rank(err) > 2 /\ dcArg # 0
       THEN /\ channels' = [channels EXCEPT ![dcArg] =
                              IF @ \in {"connecting", "open"} THEN "closing" ELSE @]
            /\ dataChannel' = 0
       ELSE UNCHANGED <<channels, dataChannel>>
  /\ IF Rank(err) > 3 /\ pcArg # 0
       THEN /\ pcs' = [pcs EXCEPT ![pcArg] = "closed"]
            /\ peerConnection' = 0
       ELSE UNCHANGED <<pcs, peerConnection>>
  /\ inCall' = IF Rank(err) > 4 THEN FALSE ELSE inCall
  /\ IF err = "none"
       THEN /\ connectStatus' = "notConnect"
            /\ UNCHANGED <<messages, messageCounter>>
       ELSE /\ AddMessage(MsgDisconnect, FALSE, "text")
            /\ UNCHANGED connectStatus
  /\ faults' = IF err = "none" THEN faults ELSE faults + 1
  /\ escaped' = escaped

\* the caller of the exported disconnectWebSocket passes the handles it rendered
Disconnect ==
  \E err \in TeardownErrors :
    /\ DisconnectWebSocket(peerConnection, dataChannel, err)
    /\ last' = Note("disconnect", connectStatus, 0, err)
    /\ tasks' = IF err = "none" THEN Torn ELSE tasks
    /\ UNCHANGED <<sent, chatVars>>

\* ------------------------------------------------------------- voice button
\* (mutant) the handler does not tell connecting from notConnect and starts
\* a connect with the idle status it was first rendered with
HandleVoicePressStale ==
  CASE connectStatus = "connected" -> Disconnect /\ UNCHANGED calls
    [] OTHER ->
         /\ ConnectWebSocket("notConnect")
         /\ last' = Note("connect", "notConnect", 0, "started")
         /\ UNCHANGED <<peerConnection, dataChannel, localStreamRef,
                        messages, messageCounter, inCall, pcs, channels,
                        streams, sent, faults, escaped, calls, chatVars>>

\* handleVoicePress: disconnect when the rendered status is connected, connect
\* when it is notConnect, ignore the press while connecting
HandleVoicePress ==
  CASE connectStatus = "connected" -> Disconnect /\ UNCHANGED calls
    [] connectStatus = "notConnect" -> Connect /\ UNCHANGED calls
    [] OTHER ->
         /\ last' = Note("pressIgnored", connectStatus, 0, "-")
         /\ UNCHANGED <<connectStatus, peerConnection, dataChannel,
                        localStreamRef, messages, messageCounter, inCall, pcs,
                        channels, streams, sent, tasks, faults, escaped,
                        calls, chatVars>>

\* ------------------------------------------------- data channel, remote track
\* the answer has been handed to the peer connection of task c
AnswerApplied(c) ==
  /\ c \in DOMAIN tasks
  /\ tasks[c].result = "connected"

\* channel.onopen: send the session.update configuration
ChannelOpen(c) ==
  /\ channels[c] = "connecting" /\ pcs[c] = "open" /\ AnswerApplied(c)
  /\ channels' = [channels EXCEPT ![c] = "open"]
  /\ sent' = Append(sent, [ch |-> c, type |-> "session.update",
                           readyState |-> "open"])
  /\ last' = Note("onopen", "-", c, "-")
  /\ UNCHANGED <<connectStatus, peerConnection, dataChannel, localStreamRef,
                 messages, messageCounter, inCall, pcs, streams, tasks,
                 faults, escaped, calls, chatVars>>

\* channel.onerror: addMessage('Data channel error')
ChannelError(c) ==
  /\ channels[c] \in {"connecting", "open", "closing"}
  /\ faults < MaxFaults
  /\ AddMessage(MsgChannelError, FALSE, "text")
  /\ faults' = faults + 1
  /\ last' = Note("onerror", "-", c, "-")
  /\ UNCHANGED <<connectStatus, peerConnection, dataChannel, localStreamRef,
                 inCall, pcs, channels, streams, sent, tasks, escaped, calls,
                 chatVars>>

\* channel.onclose: setConnectStatus('notConnect').  The channel closes after
\* close() was called on it, or on its own once the session is negotiated.
ChannelClose(c) ==
  /\ \/ channels[c] \in {"open", "closing"}
     \/ channels[c] = "connecting" /\ AnswerApplied(c)
  /\ channels' = [channels EXCEPT ![c] = "closed"]
  /\ connectStatus' = "notConnect"
  /\ tasks' = Torn
  /\ last' = Note("onclose", "-", c, "-")
  /\ UNCHANGED <<peerConnection, dataChannel, localStreamRef, messages,
                 messageCounter, inCall, pcs, streams, sent, faults,
                 escaped, calls, chatVars>>

\* pc.ontrack: InCallManager.start, setSpeakerphoneOn
RemoteTrack(c) ==
  /\ pcs[c] = "open" /\ AnswerApplied(c)
  /\ inCall' = TRUE
  /\ last' = Note("ontrack", "-", c, "-")
  /\ UNCHANGED <<connectStatus, peerConnection, dataChannel, localStreamRef,
                 messages, messageCounter, pcs, channels, streams, sent,
                 tasks, faults, escaped, calls, chatVars>>

\* ------------------------------------------------------------ specification
Resume ==
  \E t \in 1..MaxConnects :
    \/ \E g \in BOOLEAN : ResumePermission(t, g)
    \/ \E o \in {"secret", "noSecret", "throw"} : ResumeCredential(t, o)
    \/ \E o \in {"ok", "noTracks", "throw", "addTrackThrows",
                 "createChannelThrows"} : ResumeMedia(t, o)
    \/ \E o \in {"valid", "invalid", "throw"} : ResumeOffer(t, o)
    \/ \E o \in {"ok", "throw"} : ResumeLocalDescription(t, o)
    \/ \E o \in {"ok", "fail"} : ResumeSdpExchange(t, o)
    \/ \E o \in {"ok", "throw"} : ResumeRemoteDescription(t, o)

Events ==
  \E c \in 1..MaxConnects :
    \/ ChannelOpen(c)
    \/ ChannelError(c)
    \/ ChannelClose(c)
    \/ RemoteTrack(c)

\* the chat screen: the voice button, the continuations, the callbacks
Next == HandleVoicePress \/ Resume \/ Events

Spec == Init /\ [][Next]_vars

\* the exported functions called directly, with the rendered state as arguments
ApiConnect ==
  /\ calls < MaxCalls
  /\ calls' = calls + 1
  /\ Connect

ApiDisconnect ==
  /\ calls < MaxCalls
  /\ calls' = calls + 1
  /\ Disconnect

NextApi == ApiConnect \/ ApiDisconnect \/ Resume \/ Events

SpecApi == Init /\ [][NextApi]_vars

\* ------------------------------------------------------------ text functions
\* words the texts under test are made of
MaxWords == 2

\* String.prototype.toLowerCase, on the letters A-Z
UpperCaseLetters == "ABCDEFGHIJKLMNOPQRSTUVWXYZ"
LowerCaseLetters == "abcdefghijklmnopqrstuvwxyz"

LowerChar(c) ==
  IF \E j \in 1..Len(UpperCaseLetters) : SubSeq(UpperCaseLetters, j, j) = c
    THEN LET j == CHOOSE k \in 1..Len(UpperCaseLetters) :
                    SubSeq(UpperCaseLetters, k, k) = c
         IN SubSeq(LowerCaseLetters, j, j)
    ELSE c

RECURSIVE toLowerCase(_)
toLowerCase(s) ==
  IF s = "" THEN "" ELSE LowerChar(Head(s)) \o toLowerCase(Tail(s))

\* String.prototype.includes
includes(s, k) ==
  \E i \in 0..(Len(s) - Len(k)) : SubSeq(s, i + 1, i + Len(k)) = k

\* String.prototype.trim, on the space character
RECURSIVE trimStart(_)
trimStart(s) ==
  IF s # "" /\ Head(s) = " " THEN trimStart(Tail(s)) ELSE s

RECURSIVE trimEnd(_)
trimEnd(s) ==
  IF s # "" /\ SubSeq(s, Len(s), Len(s)) = " "
    THEN trimEnd(SubSeq(s, 1, Len(s) - 1))
    ELSE s

trim(s) == trimEnd(trimStart(s))

\* keywords.some(keyword => messageLower.includes(keyword))
someIncluded(keywords, messageLower) ==
  \E i \in DOMAIN keywords : includes(messageLower, keywords[i])

\* the keyword list of containsExternalQueryKeywords
ExternalQueryKeywords ==
  <<"location", "where is", "how to get to", "directions to", "address",
    "restaurant", "cafe", "diner", "eat", "food", "dining",
    "shop", "store", "mall", "buy", "purchase",
    "product", "item", "price", "cost",
    "weather", "temperature", "forecast", "rain", "sunny", "cloudy",
    "near me", "find", "search for", "cuisine", "restaurant type",
    "restaurant name", "shop name", "product name", "weather in",
    "cuisines">>

\* (mutant) the message is searched as typed, without lower-casing it
containsExternalQueryKeywordsCased(message) ==
  someIncluded(ExternalQueryKeywords, message)

containsExternalQueryKeywords(message) ==
  LET messageLower == toLowerCase(message)
  IN someIncluded(ExternalQueryKeywords, messageLower)

\* (mutant) the restaurant keywords are tested before the weather keywords
getQueryTypeRestaurantFirst(message) ==
  LET messageLower == toLowerCase(message)
  IN IF someIncluded(<<"restaurant", "cafe", "diner", "eat", "food",
                       "dining">>, messageLower)
       THEN "restaurant"
     ELSE IF someIncluded(<<"weather", "temperature", "forecast", "rain",
                            "sunny", "cloudy">>, messageLower)
       THEN "weather"
     ELSE IF someIncluded(<<"shop", "store", "mall", "buy", "purchase",
                            "product">>, messageLower)
       THEN "shop"
     ELSE "general"

\* getQueryType: the three tests
\* messageLower.includes(k1) || ... || messageLower.includes(k6), in order
getQueryType(message) ==
  LET messageLower == toLowerCase(message)
  IN IF someIncluded(<<"weather", "temperature", "forecast", "rain",
                       "sunny", "cloudy">>, messageLower)
       THEN "weather"
     ELSE IF someIncluded(<<"restaurant", "cafe", "diner", "eat", "food",
                            "dining">>, messageLower)
       THEN "restaurant"
     ELSE IF someIncluded(<<"shop", "store", "mall", "buy", "purchase",
                            "product">>, messageLower)
       THEN "shop"
     ELSE "general"

\* the indicator list of containsAILookupIndicator, as written in the source
LookupIndicators ==
  <<"I will check", "let me check", "I'll look up", "let me look up",
    "I will look up", "let me find", "I'll find", "I will find",
    "checking", "looking up", "searching for", "get back to you soon",
    "cuisine", "restaurant type", "restaurant name", "shop name",
    "product name", "weather in", "cuisines">>

containsAILookupIndicator(message) ==
  LET messageLower == toLowerCase(message)
  IN someIncluded(LookupIndicators, messageLower)

\* the patterns of extractQueryFromAIResponse, /<prefix> (.+?)<suffix>/i
ExtractPatterns ==
  <<[prefix |-> "i will check ", suffix |-> " and get back to you"],
    [prefix |-> "let me check ", suffix |-> " for you"],
    [prefix |-> "i'll look up ", suffix |-> " and"],
    [prefix |-> "let me look up ", suffix |-> " and"],
    [prefix |-> "i will look up ", suffix |-> " and"],
    [prefix |-> "let me find ", suffix |-> " for you"],
    [prefix |-> "i'll find ", suffix |-> " for you"],
    [prefix |-> "i will find ", suffix |-> " for you"]>>

\* aiResponse.match(pattern): the leftmost match with the shortest group, as
\* <<start of the group, its length>>; <<0, 0>> when the pattern does not match
Match(aiResponse, pattern) ==
  LET lower == toLowerCase(aiResponse)
      n == Len(lower)
      a == Len(pattern.prefix)
      b == Len(pattern.suffix)
      matches ==
        {m \in (1..n) \X (1..n) :
           /\ m[1] + a + m[2] + b - 1 <= n
           /\ SubSeq(lower, m[1], m[1] + a - 1) = pattern.prefix
           /\ SubSeq(lower, m[1] + a + m[2], m[1] + a + m[2] + b - 1)
                = pattern.suffix}
  IN IF matches = {} THEN <<0, 0>>
     ELSE LET first == CHOOSE m \in matches :
                         \A o \in matches :
                           m[1] < o[1] \/ (m[1] = o[1] /\ m[2] <= o[2])
          IN <<first[1] + a, first[2]>>

\* extractQueryFromAIResponse: the trimmed group of the first pattern that
\* matches with a group that is not empty, else the response itself
RECURSIVE ExtractFrom(_, _)
ExtractFrom(aiResponse, i) ==
  IF i > Len(ExtractPatterns) THEN aiResponse
  ELSE LET match == Match(aiResponse, ExtractPatterns[i])
       IN IF match[2] > 0
            THEN trim(SubSeq(aiResponse, match[1], match[1] + match[2] - 1))
            ELSE ExtractFrom(aiResponse, i + 1)

extractQueryFromAIResponse(aiResponse) == ExtractFrom(aiResponse, 1)

\* Camera.tsx: the keyword lists of the order flow
OrderKeywords ==
  <<"order for me", "order selected food", "order selected", "place order",
    "i want to order", "order these", "order this", "place my order",
    "order food", "make order", "place an order">>

containsOrderKeywords(message) ==
  LET messageLower == toLowerCase(message)
  IN someIncluded(OrderKeywords, messageLower)

ResponseKeywords ==
  <<"no allergies", "allergic to", "i have allergy", "dietary restriction",
    "vegetarian", "vegan", "gluten free", "no customization", "extra",
    "no onions", "spicy", "mild", "sauce on side", "well done",
    "medium rare", "no dairy", "nut allergy", "shellfish allergy",
    "proceed with order", "place the order", "ready to order",
    "no allergic", "no special requests", "everything is fine", "proceed",
    "continue">>

isOrderResponseMessage(message) ==
  LET messageLower == toLowerCase(message)
  IN someIncluded(ResponseKeywords, messageLower)

NoAllergiesKeywords ==
  <<"no allergies", "no allergy", "no allergic", "no dietary restriction",
    "no special requests", "no customization", "proceed with order",
    "place the order", "ready to order", "everything is fine", "looks good",
    "proceed", "continue">>

isNoAllergiesResponse(message) ==
  LET messageLower == toLowerCase(message)
  IN someIncluded(NoAllergiesKeywords, messageLower)
\* ----------------------------------------------------------------- chat log
\* the log and the counter as one value, so that a handler that calls
\* addMessage and setMessages several times in a row can be written as one step
Chat == [log |-> messages, counter |-> messageCounter]

\* addMessage on the value c
WithMessage(c, text, isUser, type) ==
  [log |-> Append(c.log, [id |-> c.counter + 1, text |-> text,
                          isUser |-> isUser, type |-> type]),
   counter |-> c.counter + 1]

\* addMessage with externalData: the message carries the structured payload
\* and the query type
WithExternalMessage(c, text, data, queryType) ==
  [log |-> Append(c.log, [id |-> c.counter + 1, text |-> text,
                          isUser |-> FALSE, type |-> "external_query"]
                         @@ [data |-> data, queryType |-> queryType]),
   counter |-> c.counter + 1]

\* setMessages(prev => prev.slice(0, -1))
WithoutLast(c) == [c EXCEPT !.log = SubSeq(@, 1, Len(@) - 1)]

Commit(c) ==
  /\ messages' = c.log
  /\ messageCounter' = c.counter

\* the texts the chat handlers append (without their leading pictograph)
MsgOrderStart ==
  "I can help you place an order! Let me ask you a few questions first..."
MsgOrderError ==
  "Sorry, I encountered an error processing your order request. Please try again."
MsgCookingNoAllergies ==
  "Perfect! Creating detailed instructions for the chef and waiter..."
MsgCookingCustom ==
  "Thank you for the details! Creating customized instructions for the chef and waiter..."
MsgOrderComplete == "ORDER PROCESSING COMPLETE"
MsgOrderDetailsError ==
  "Sorry, I encountered an error processing your order details. Please try again."
MsgLooking == "Looking that up for you..."
MsgNoInfo == "Sorry, I couldn't retrieve that information right now."
MsgThinking == "Llama is thinking..."
MsgLlamaError ==
  "Sorry, I encountered an error processing your message. Please try again."
MsgMoreInfo == "Let me get more detailed information..."
MsgNoMoreInfo == "Sorry, I couldn't retrieve additional information right now."
MsgAIError == "AI Error: "
MsgUnknownError == "Unknown error"
MsgCleared == "Chat cleared! How can I help you today?"
MsgNotRetrieved == "Sorry, I couldn't retrieve that information."
MsgNotFormatted == "I found some information, but couldn't format it properly."

\* what the collaborators answer: the Llama API, the cooking instructions, the
\* text formatExternalQueryResponse builds from search results
LlamaReply == "Here is what I think."
CookingInstructions == "CHEF INSTRUCTIONS"
SearchResults == "**Search Results:**"

\* formatExternalQueryResponse(apiResponse, query): the text, the payload and
\* the query type of the message, for a response that is null, that holds none
\* of the three result lists, or that holds results
formatExternalQueryResponse(apiResponse, query) ==
  CASE apiResponse = "null" ->
         [text |-> MsgNotRetrieved, data |-> "null", queryType |-> "general"]
    [] apiResponse = "noLists" ->
         [text |-> MsgNotFormatted, data |-> apiResponse,
          queryType |-> getQueryType(query)]
    [] apiResponse = "results" ->
         [text |-> SearchResults, data |-> apiResponse,
          queryType |-> getQueryType(query)]

\* the JSON bodies the search collaborator answers with
ApiResponses == {"null", "noLists", "results"}

\* what the search collaborator does: it answers with status 200 and a body,
\* it answers with status 500, or the request fails
SearchAnswers == ApiResponses \cup {"http500", "throw"}

\* fetchExternalQueryResponse: the body, or "throw" when the request fails or
\* response.ok is false (the catch logs and throws again)
fetchExternalQueryResponse(answer) ==
  IF answer \in ApiResponses THEN answer ELSE "throw"

\* --------------------------------------------------------------- chat input
\* a value that is truthy in the source: defined and true
Truthy(o) == o = Some(TRUE)

\* a list that is defined and not empty
NonEmpty(o) == o # Undefined /\ Len(Value(o)) > 0

\* the tests handleSend and handleAIResponse make on a text
Classify(text) ==
  [isOrderResponseMessage |-> isOrderResponseMessage(text),
   isNoAllergiesResponse |-> isNoAllergiesResponse(text),
   containsOrderKeywords |-> containsOrderKeywords(text),
   containsExternalQueryKeywords |-> containsExternalQueryKeywords(text)]

\* what the user types
UserTexts == {"Weather in Paris", "order food extra ", "no allergies"}

\* what the input field is set to: one of those texts, blanks, or nothing
TypedTexts == UserTexts \cup {" ", ""}

\* the deferral phrase of the session.update instructions:
\* "I will check {add user question} and get back to you soon"
DeferralPhrase(question) ==
  "I will check " \o question \o " and get back to you soon"

Questions == {"opening hours", "the weather in Paris"}

\* what the assistant says
Utterances == {DeferralPhrase(q) : q \in Questions}

\* what the user types during an order
OrderTexts == {"no allergies", "extra spicy please", "order for me"}

\* the texts the chat handlers are given
ChatTexts == {trim(t) : t \in UserTexts \cup OrderTexts} \cup Utterances

\* Classify and formatExternalQueryResponse on those texts, computed once
Classified == [text \in ChatTexts |-> Classify(text)]

Formatted ==
  [apiResponse \in ApiResponses, query \in ChatTexts |->
     formatExternalQueryResponse(apiResponse, query)]

\* (mutant) the order keywords are tested before the pending clarification
SendRouteOrderFirst(is, order) ==
  IF is.containsOrderKeywords THEN "order"
  ELSE IF Truthy(order.awaitingResponse) /\ is.isOrderResponseMessage
    THEN IF is.isNoAllergiesResponse /\ NonEmpty(order.selectedItems)
           THEN "cookingNoAllergies"
         ELSE IF order.selectedItems # Undefined
           THEN "cookingCustom"
         ELSE "followUp"
  ELSE IF is.containsExternalQueryKeywords THEN "external"
  ELSE "llama"

\* handleSend: the branch it takes for a message text with the test results
\* `is`, under the order state of the render it was created in
SendRoute(is, order) ==
  IF Truthy(order.awaitingResponse) /\ is.isOrderResponseMessage
    THEN IF is.isNoAllergiesResponse /\ NonEmpty(order.selectedItems)
           THEN "cookingNoAllergies"
         ELSE IF order.selectedItems # Undefined
           THEN "cookingCustom"
         ELSE "followUp"
  ELSE IF is.containsOrderKeywords THEN "order"
  ELSE IF is.containsExternalQueryKeywords THEN "external"
  ELSE "llama"

\* handleAIResponse: whether the utterance is augmented
ResponseRoute(is) ==
  IF is.containsExternalQueryKeywords THEN "augment" ELSE "plain"

\* an invocation of a chat handler: the handler, the await it is suspended at
\* ("done": it has returned), the text it works on, and for an inbound event
\* its type tag, the query it has passed to fetchExternalQueryResponse, the
\* items and preferences it has passed to generateCookingInstructions, and the
\* id of the loading placeholder it appended before the await (0: none)
PlaceholderRoutes == {"cooking", "order", "external", "llama"}

NewJob(kind, pc, text) ==
  [kind |-> kind, pc |-> pc, text |-> text, type |-> "-",
   query |-> IF pc = "external" THEN text ELSE "-",
   items |-> Undefined, prefs |-> <<>>,
   placeholder |-> IF pc \in PlaceholderRoutes THEN messageCounter' ELSE 0]

Suspended(j) == j \in DOMAIN jobs /\ jobs[j].pc # "done"

Finish(j) == [jobs EXCEPT ![j].pc = "done"]

\* bound of the chat screen: handler invocations
MaxJobs == 2

\* what the menu card hands over: the selected items, at least one
ItemLists == {<<"dish">>, <<"dish", "soup">>}

\* onChangeText={setInputText}
HandleChangeText(t) ==
  /\ t # inputText
  /\ inputText' = t
  /\ last' = Note("changeText", t, 0, "-")
  /\ UNCHANGED <<connectStatus, peerConnection, dataChannel, localStreamRef,
                 messages, messageCounter, inCall, pcs, channels, streams,
                 sent, tasks, faults, escaped, calls, orderState, jobs, probe>>

\* handleOrderRequest up to its await: the order state it sets.  `prev` is the
\* state its update is applied to, `order` the state of the render it was
\* created in.
OrderRequestState(prev, order, selectedItems, userMessage) ==
  LET itemsToUse ==
        IF selectedItems = Undefined /\ NonEmpty(order.lastSelectedItems)
          THEN order.lastSelectedItems
          ELSE selectedItems
  IN IF NonEmpty(itemsToUse)
       THEN [selectedItems |-> itemsToUse, lastSelectedItems |-> itemsToUse,
             awaitingResponse |-> Some(TRUE), userResponses |-> Some(<<>>)]
     ELSE IF userMessage # Undefined /\ Value(userMessage) # ""
       THEN [selectedItems |-> Undefined, lastSelectedItems |-> Undefined,
             awaitingResponse |-> Some(TRUE), userResponses |-> Some(<<>>)]
     ELSE prev

\* handleSend up to its first await: the user's message, the branch, the
\* placeholder of the branch, the call of the collaborator
HandleSend ==
  LET messageText == trim(inputText)
      route == SendRoute(Classified[messageText], orderState)
      typed == WithMessage(Chat, messageText, TRUE, "text")
      updatedResponses ==
        (IF orderState.userResponses = Undefined
           THEN <<>> ELSE Value(orderState.userResponses)) \o <<messageText>>
  IN /\ inputText' = ""
     /\ CASE route \in {"cookingNoAllergies", "cookingCustom"} ->
               /\ Commit(WithMessage(typed,
                    IF route = "cookingNoAllergies"
                      THEN MsgCookingNoAllergies ELSE MsgCookingCustom,
                    FALSE, "text"))
               /\ orderState' =
                    [orderState EXCEPT !.userResponses = Some(updatedResponses)]
               /\ jobs' = Append(jobs,
                    [NewJob("handleSend", "cooking", messageText)
                       EXCEPT !.items = orderState.selectedItems,
                              !.prefs = updatedResponses])
          [] route = "followUp" ->
               /\ Commit(typed)
               /\ orderState' =
                    [orderState EXCEPT !.userResponses = Some(updatedResponses)]
               /\ jobs' = Append(jobs, NewJob("handleSend", "followUp", messageText))
          [] route = "order" ->
               /\ Commit(WithMessage(typed, MsgOrderStart, FALSE, "text"))
               /\ orderState' = OrderRequestState(orderState, orderState,
                                                  Undefined, Some(messageText))
               /\ jobs' = Append(jobs, NewJob("handleSend", "order", messageText))
          [] route = "external" ->
               /\ Commit(WithMessage(typed, MsgLooking, FALSE, "text"))
               /\ UNCHANGED orderState
               /\ jobs' = Append(jobs, NewJob("handleSend", "external", messageText))
          [] route = "llama" ->
               /\ Commit(WithMessage(typed, MsgThinking, FALSE, "text"))
               /\ UNCHANGED orderState
               /\ jobs' = Append(jobs, NewJob("handleSend", "llama", messageText))
     /\ last' = Note("send", messageText, Len(jobs) + 1, route)

\* ChatInput.handleButtonPress: handleSend is called when the trimmed input is
\* not empty
HandleButtonPress ==
  /\ IF Len(trim(inputText)) > 0
       THEN HandleSend
       ELSE /\ last' = Note("send", inputText, 0, "empty")
            /\ UNCHANGED <<messages, messageCounter, inputText, orderState,
                           jobs>>
  /\ UNCHANGED <<connectStatus, peerConnection, dataChannel, localStreamRef,
                 inCall, pcs, channels, streams, sent, tasks, faults, escaped,
                 calls, probe>>

\* the camera screen's processAndSendImages: the analysed menu is appended
\* as an external_query message, which the chat screen renders as a menu card
MsgMenu == "Menu Analysis Complete"
MenuData == "menu"

MenuAnalysed ==
  /\ \A i \in DOMAIN messages : messages[i].text # MsgMenu
  /\ Commit(WithExternalMessage(Chat, MsgMenu, MenuData, "restaurant"))
  /\ last' = Note("menuAnalysed", "-", 0, "-")
  /\ UNCHANGED <<connectStatus, peerConnection, dataChannel, localStreamRef,
                 inCall, pcs, channels, streams, sent, tasks, faults, escaped,
                 calls, chatVars>>

\* the menu card's onOrderSelected (the card calls it with at least one
\* item): the selection is remembered and handleOrderRequest(selectedItems)
\* runs up to its await
HandleOrderSelected(items) ==
  /\ \E i \in DOMAIN messages :
       messages[i].type = "external_query" /\ messages[i].data = MenuData
  /\ Commit(WithMessage(Chat, MsgOrderStart, FALSE, "text"))
  /\ orderState' =
       OrderRequestState([orderState EXCEPT !.lastSelectedItems = Some(items)],
                         orderState, Some(items), Undefined)
  /\ jobs' = Append(jobs, NewJob("handleOrderRequest", "order", ""))
  /\ last' = Note("orderSelected", "-", Len(jobs) + 1, "order")
  /\ UNCHANGED <<connectStatus, peerConnection, dataChannel, localStreamRef,
                 inCall, pcs, channels, streams, sent, tasks, faults, escaped,
                 calls, inputText, probe>>

\* the continuation of a handler after its awaited collaborator call returned
\* (`o` is what it returned) or threw
ResumeJob(j, o) ==
  /\ Suspended(j)
  /\ CASE jobs[j].pc = "cooking" /\ o = "ok" ->
            /\ Commit(WithMessage(WithoutLast(Chat),
                                  MsgOrderComplete \o CookingInstructions,
                                  FALSE, "text"))
            /\ orderState' = [orderState EXCEPT !.awaitingResponse = Some(FALSE)]
       [] jobs[j].pc = "cooking" /\ o = "throw" ->
            /\ Commit(WithMessage(Chat, MsgOrderDetailsError, FALSE, "text"))
            /\ UNCHANGED orderState
       [] jobs[j].pc = "followUp" /\ o = "ok" ->
            /\ Commit(WithMessage(Chat, LlamaReply, FALSE, "text"))
            /\ UNCHANGED orderState
       [] jobs[j].pc = "followUp" /\ o = "throw" ->
            /\ Commit(WithMessage(Chat, MsgOrderDetailsError, FALSE, "text"))
            /\ UNCHANGED orderState
       [] jobs[j].pc = "order" /\ o = "ok" ->
            /\ Commit(WithMessage(WithoutLast(Chat), LlamaReply, FALSE, "text"))
            /\ UNCHANGED orderState
       [] jobs[j].pc = "order" /\ o = "throw" ->
            /\ Commit(WithMessage(WithoutLast(Chat), MsgOrderError, FALSE, "text"))
            /\ UNCHANGED orderState
       [] jobs[j].pc = "external" /\ o \in SearchAnswers ->
            /\ LET apiResponse == fetchExternalQueryResponse(o)
               IN IF apiResponse # "throw"
                    THEN LET formattedResponse ==
                               Formatted[apiResponse, jobs[j].query]
                         IN Commit(WithExternalMessage(
                                     WithoutLast(Chat),
                                     formattedResponse.text,
                                     formattedResponse.data,
                                     formattedResponse.queryType))
                    ELSE Commit(WithMessage(WithoutLast(Chat), MsgNoInfo,
                                            FALSE, "text"))
            /\ UNCHANGED orderState
       [] jobs[j].pc = "llama" /\ o = "ok" ->
            /\ Commit(WithMessage(WithoutLast(Chat), LlamaReply, FALSE, "text"))
            /\ UNCHANGED orderState
       [] jobs[j].pc = "llama" /\ o = "throw" ->
            /\ Commit(WithMessage(WithoutLast(Chat), MsgLlamaError, FALSE, "text"))
            /\ UNCHANGED orderState
       [] jobs[j].pc = "augment" /\ o \in SearchAnswers ->
            /\ LET apiResponse == fetchExternalQueryResponse(o)
               IN IF apiResponse # "throw"
                    THEN LET formattedResponse ==
                               Formatted[apiResponse, jobs[j].query]
                         IN Commit(WithExternalMessage(
                                     Chat,
                                     formattedResponse.text,
                                     formattedResponse.data,
                                     formattedResponse.queryType))
                    ELSE Commit(WithMessage(Chat, MsgNoMoreInfo, FALSE,
                                            "text"))
            /\ UNCHANGED orderState
       [] jobs[j].pc = "timer" /\ o = "fired" ->
            /\ Commit(WithMessage(Chat, MsgCleared, FALSE, "text"))
            /\ UNCHANGED orderState
       [] OTHER -> FALSE
  /\ jobs' = Finish(j)
  /\ last' = Note("resumeJob", jobs[j].pc, j, o)
  /\ UNCHANGED <<connectStatus, peerConnection, dataChannel, localStreamRef,
                 inCall, pcs, channels, streams, sent, tasks, faults, escaped,
                 calls, inputText, probe>>

\* (mutant) the counter is reset but the log is kept
HandleClearChatKeepsLog ==
  /\ messages' = messages
  /\ orderState' = EmptyOrderState
  /\ messageCounter' = 0
  /\ jobs' = Append(jobs, NewJob("handleClearChat", "timer", ""))
  /\ last' = Note("clearChat", "-", Len(jobs) + 1, "-")
  /\ UNCHANGED <<connectStatus, peerConnection, dataChannel, localStreamRef,
                 inCall, pcs, channels, streams, sent, tasks, faults, escaped,
                 calls, inputText, probe>>

\* the Clear button of the confirmation dialog: the log, the order state and
\* the counter are reset, and a timeout is set that appends the welcome line
HandleClearChat ==
  /\ messages' = <<>>
  /\ orderState' = EmptyOrderState
  /\ messageCounter' = 0
  /\ jobs' = Append(jobs, NewJob("handleClearChat", "timer", ""))
  /\ last' = Note("clearChat", "-", Len(jobs) + 1, "-")
  /\ UNCHANGED <<connectStatus, peerConnection, dataChannel, localStreamRef,
                 inCall, pcs, channels, streams, sent, tasks, faults, escaped,
                 calls, inputText, probe>>

\* ------------------------------------------------------------ inbound events
\* the type tags handleOpenAIEvent only logs, and those that carry the text of
\* a completed assistant utterance
LogOnlyTypes ==
  {"session.created", "session.updated", "input_audio_buffer.speech_started",
   "input_audio_buffer.speech_stopped", "conversation.item.created",
   "response.created", "response.output_item.added",
   "response.content_part.added", "response.done"}

DoneTypes ==
  {"response.content_part.done", "response.audio_transcript.done",
   "response.text.done"}

\* event.data: a payload that is not JSON, or a JSON object with its type tag
\* and the text it carries (part.text, transcript, text or error.message; the
\* empty text stands for a field that is absent)
NotJSON == [json |-> FALSE, type |-> "-", text |-> ""]

Payloads ==
  {NotJSON}
  \cup [json : {TRUE}, type : {"response.done", "rate_limits.updated"},
        text : {""}]
  \cup [json : {TRUE}, type : DoneTypes, text : Utterances]
  \cup [json : {TRUE}, type : {"response.content_part.done"}, text : {""}]
  \cup [json : {TRUE}, type : {"error"}, text : {"", "Rate limit reached"}]

\* the assistant says each utterance once, and the server reports a completed
\* utterance once per type tag
Deliverable(p) ==
  (p.type \in DoneTypes /\ p.text # "") =>
    \A k \in DOMAIN jobs :
      ~(jobs[k].type = p.type /\ jobs[k].text = p.text)

\* what the decoder does with a payload
Decoded(p) ==
  IF ~p.json THEN "parseError"
  ELSE IF p.type \in DoneTypes
    THEN IF p.text # "" THEN ResponseRoute(Classified[p.text]) ELSE "ignored"
  ELSE IF p.type = "error" THEN "error"
  ELSE IF p.type \in LogOnlyTypes THEN "logged"
  ELSE "unhandled"

\* handleOpenAIEvent(event, addMessage) up to the await of handleAIResponse,
\* apart from what becomes of an exception
DecodeEvent(c, p) ==
  /\ channels[c] = "open"
  /\ Deliverable(p)
  /\ LET decoded == Decoded(p)
     IN /\ CASE decoded = "augment" ->
                  Commit(WithMessage(WithMessage(Chat, p.text, FALSE, "text"),
                                     MsgMoreInfo, FALSE, "text"))
             [] decoded = "plain" ->
                  Commit(WithMessage(Chat, p.text, FALSE, "text"))
             [] decoded = "error" ->
                  Commit(WithMessage(Chat,
                           MsgAIError \o (IF p.text = "" THEN MsgUnknownError
                                                         ELSE p.text),
                           FALSE, "text"))
             [] OTHER -> UNCHANGED <<messages, messageCounter>>
        /\ jobs' = Append(jobs,
             [kind |-> "handleOpenAIEvent",
              pc |-> IF decoded = "augment" THEN "augment" ELSE "done",
              text |-> p.text, type |-> p.type,
              query |-> IF decoded = "augment" THEN p.text ELSE "-",
              items |-> Undefined, prefs |-> <<>>, placeholder |-> 0])
        /\ last' = Note("onmessage", p.type, Len(jobs) + 1, decoded)
  /\ UNCHANGED <<connectStatus, peerConnection, dataChannel, localStreamRef,
                 inCall, pcs, channels, streams, sent, tasks, faults, calls,
                 inputText, orderState, probe>>

\* (mutant) no try/catch around JSON.parse
HandleOpenAIEventNoCatch(c, p) ==
  /\ DecodeEvent(c, p)
  /\ escaped' = (escaped \/ ~p.json)

\* channel.onmessage: handleOpenAIEvent; the whole body is one try block
HandleOpenAIEvent(c, p) ==
  /\ DecodeEvent(c, p)
  /\ escaped' = escaped

\* ---------------------------------------------------------- sendTextMessage
SendTexts == {"Hello", "Weather in Paris"}
SendErrors == {"none", "first", "second"}

\* createConversationItem(text), createResponseEvent() as sent on channel ch
ConversationItem(ch, text) ==
  [ch |-> ch, type |-> "conversation.item.create",
   readyState |-> channels[ch]] @@ [text |-> text]

ResponseEvent(ch) ==
  [ch |-> ch, type |-> "response.create", readyState |-> channels[ch]]

\* (mutant) the channel's readyState is not tested
SendTextMessageAnyState(dcArg, text, err) ==
  /\ err # "none" => (dcArg # 0 /\ faults < MaxFaults)
  /\ IF dcArg # 0
       THEN /\ sent' = sent \o
                 CASE err = "none" ->
                        <<ConversationItem(dcArg, text), ResponseEvent(dcArg)>>
                   [] err = "first" -> <<>>
                   [] err = "second" -> <<ConversationItem(dcArg, text)>>
            /\ last' = Note("sendTextMessage", text, dcArg,
                            IF err = "none" THEN "true" ELSE "false")
       ELSE /\ UNCHANGED sent
            /\ last' = Note("sendTextMessage", text, dcArg, "false")
  /\ faults' = IF err = "none" THEN faults ELSE faults + 1
  /\ escaped' = escaped

\* sendTextMessage(dataChannel, text): on an open channel the two sends in a
\* try block; send number `err` raises, the catch returns false
SendTextMessage(dcArg, text, err) ==
  /\ err # "none" => (dcArg # 0 /\ channels[dcArg] = "open"
                        /\ faults < MaxFaults)
  /\ IF dcArg # 0 /\ channels[dcArg] = "open"
       THEN /\ sent' = sent \o
                 CASE err = "none" ->
                        <<ConversationItem(dcArg, text), ResponseEvent(dcArg)>>
                   [] err = "first" -> <<>>
                   [] err = "second" -> <<ConversationItem(dcArg, text)>>
            /\ last' = Note("sendTextMessage", text, dcArg,
                            IF err = "none" THEN "true" ELSE "false")
       ELSE /\ UNCHANGED sent
            /\ last' = Note("sendTextMessage", text, dcArg, "false")
  /\ faults' = IF err = "none" THEN faults ELSE faults + 1
  /\ escaped' = escaped

\* the exported sendTextMessage called with the channel of the render, or
\* with null
ApiSendTextMessage ==
  /\ calls < MaxCalls
  /\ calls' = calls + 1
  /\ \E dcArg \in {0, dataChannel}, text \in SendTexts, err \in SendErrors :
       SendTextMessage(dcArg, text, err)
  /\ UNCHANGED <<connectStatus, peerConnection, dataChannel, localStreamRef,
                 messages, messageCounter, inCall, pcs, channels, streams,
                 tasks, chatVars>>

\* ----------------------------------------------------------- vision pipeline
\* the texts takeSnapshotAndAnalyze appends (without their leading pictograph)
MsgLook == "Taking a look at what you're seeing..."
MsgAnalyzing == "Analyzing the image..."
MsgVision == "**Vision Analysis:**"
MsgVisionError == "Error analyzing image: "

\* the text of the conversation item that carries the description
VisionPrompt == "I'm looking at something and here's what I can see: "

\* an invocation of takeSnapshotAndAnalyze, or the timeout it has set, with the
\* data channel it was given
VisionJob(kind, pc, dcArg) == [kind |-> kind, pc |-> pc, dc |-> dcArg]

\* takeSnapshotAndAnalyze(camera, dataChannel, addMessage) up to its first
\* await
TakeSnapshotAndAnalyze(dcArg) ==
  /\ AddMessage(MsgLook, FALSE, "text")
  /\ jobs' = Append(jobs, VisionJob("takeSnapshotAndAnalyze", "takePhoto",
                                    dcArg))
  /\ last' = Note("takeSnapshotAndAnalyze", "-", Len(jobs) + 1, "-")
  /\ UNCHANGED <<sent, faults, escaped>>

\* the continuation of takeSnapshotAndAnalyze after an await: the awaited
\* call returned, or it threw and the catch appends the error message
ResumeVision(j, o) ==
  /\ j \in DOMAIN jobs
  /\ jobs[j].kind = "takeSnapshotAndAnalyze"
  /\ jobs[j].pc # "done"
  /\ o = "throw" => faults < MaxFaults
  /\ LET dc == jobs[j].dc
     IN CASE o = "throw" ->
               /\ AddMessage(MsgVisionError, FALSE, "text")
               /\ jobs' = [jobs EXCEPT ![j].pc = "done"]
               /\ UNCHANGED sent
          [] o = "ok" /\ jobs[j].pc = "takePhoto" ->
               /\ jobs' = [jobs EXCEPT ![j].pc = "readFile"]
               /\ UNCHANGED <<messages, messageCounter, sent>>
          [] o = "ok" /\ jobs[j].pc = "readFile" ->
               /\ AddMessage(MsgAnalyzing, FALSE, "text")
               /\ jobs' = [jobs EXCEPT ![j].pc = "analyze"]
               /\ UNCHANGED sent
          [] o = "ok" /\ jobs[j].pc = "analyze" ->
               /\ AddMessage(MsgVision, FALSE, "text")
               /\ IF dc # 0 /\ channels[dc] = "open"
                    THEN /\ sent' = Append(sent,
                                           ConversationItem(dc, VisionPrompt))
                         /\ jobs' = Append([jobs EXCEPT ![j].pc = "unlink"],
                                           VisionJob("setTimeout", "timer", dc))
                    ELSE /\ jobs' = [jobs EXCEPT ![j].pc = "unlink"]
                         /\ UNCHANGED sent
          [] o = "ok" /\ jobs[j].pc = "unlink" ->
               /\ jobs' = [jobs EXCEPT ![j].pc = "done"]
               /\ UNCHANGED <<messages, messageCounter, sent>>
  /\ faults' = IF o = "throw" THEN faults + 1 ELSE faults
  /\ escaped' = escaped
  /\ last' = Note("resumeVision", jobs[j].pc, j, o)
  /\ UNCHANGED <<connectStatus, peerConnection, dataChannel, localStreamRef,
                 inCall, pcs, channels, streams, tasks, calls, inputText,
                 orderState, probe>>

\* the timeout of takeSnapshotAndAnalyze fires, 500 ms after the description
\* was sent: dataChannel.send(response.create), with no test of readyState.
\* The entry of sent records the state the channel was in at the call.
VisionTimeout(j) ==
  /\ j \in DOMAIN jobs
  /\ jobs[j].kind = "setTimeout"
  /\ jobs[j].pc = "timer"
  /\ sent' = Append(sent, ResponseEvent(jobs[j].dc))
  /\ jobs' = [jobs EXCEPT ![j].pc = "done"]
  /\ last' = Note("visionTimeout", "-", j, channels[jobs[j].dc])
  /\ UNCHANGED <<connectStatus, peerConnection, dataChannel, localStreamRef,
                 messages, messageCounter, inCall, pcs, channels, streams,
                 tasks, faults, escaped, calls, inputText, orderState, probe>>

\* the vision pipeline started with the channel of the render, or with null
ApiTakeSnapshotAndAnalyze ==
  /\ calls < MaxCalls
  /\ calls' = calls + 1
  /\ \E dcArg \in {0, dataChannel} : TakeSnapshotAndAnalyze(dcArg)
  /\ UNCHANGED <<connectStatus, peerConnection, dataChannel, localStreamRef,
                 inCall, pcs, channels, streams, tasks, inputText, orderState,
                 probe>>

VisionResume ==
  \E j \in DOMAIN jobs :
    \/ \E o \in {"ok", "throw"} : ResumeVision(j, o)
    \/ VisionTimeout(j)

\* ------------------------------------------------------- chat specification
\* the session after one connect has succeeded: the answer is applied, the
\* data channel has not opened yet
Negotiated ==
  /\ connectStatus = "connected"
  /\ peerConnection = 1
  /\ dataChannel = 1
  /\ localStreamRef = 1
  /\ messages = <<>>
  /\ messageCounter = 0
  /\ inCall = FALSE
  /\ pcs = [i \in Ids |-> IF i = 1 THEN "open" ELSE "none"]
  /\ channels = [i \in Ids |-> IF i = 1 THEN "connecting" ELSE "none"]
  /\ streams = [i \in Ids |-> IF i = 1 THEN "live" ELSE "none"]
  /\ sent = <<>>
  /\ tasks = <<[pc |-> "done", secret |-> TRUE, steps |-> AllSteps,
                result |-> "connected", torn |-> FALSE]>>
  /\ faults = 0
  /\ escaped = FALSE
  /\ calls = 0
  /\ last = Note("resume", "remote", 1, "ok")

InitChat ==
  /\ Negotiated
  /\ InitScreen
  /\ probe = ""

UserInput ==
  /\ Len(jobs) < MaxJobs
  /\ \/ \E t \in TypedTexts : HandleChangeText(t)
     \/ HandleButtonPress
     \/ HandleClearChat

ChatResume ==
  \E j \in DOMAIN jobs :
    \E o \in {"ok", "throw", "fired"} \cup SearchAnswers : ResumeJob(j, o)

ChannelMessage ==
  /\ Len(jobs) < MaxJobs
  /\ \E c \in 1..MaxConnects : \E p \in Payloads : HandleOpenAIEvent(c, p)

\* the channel opens, and closes, on its own
ChannelLifecycle ==
  \E c \in 1..MaxConnects :
    \/ ChannelOpen(c)
    \/ ChannelClose(c)

\* the chat screen while a voice session is up
NextChat ==
  \/ UserInput
  \/ ChatResume
  \/ ChannelMessage
  \/ ChannelLifecycle

SpecChat == InitChat /\ [][NextChat]_vars

\* ------------------------------------------------------ order specification
\* bound of the order flow: handler invocations
MaxTurns == 3

OrderInput ==
  /\ Len(jobs) < MaxTurns
  /\ \/ MenuAnalysed
     \/ \E items \in ItemLists : HandleOrderSelected(items)
     \/ \E t \in OrderTexts : HandleChangeText(t)
     \/ HandleButtonPress

\* the chat screen during an order: the menu card, the input field and the
\* continuations of the handlers
NextOrder ==
  \/ OrderInput
  \/ ChatResume

SpecOrder == Init /\ [][NextOrder]_vars

ChannelCallbacks ==
  \E c \in 1..MaxConnects :
    \/ ChannelOpen(c)
    \/ ChannelError(c)
    \/ ChannelClose(c)

\* the exported sendTextMessage called while a voice session is up
NextSend ==
  \/ ApiSendTextMessage
  \/ ChannelCallbacks

SpecSend == InitChat /\ [][NextSend]_vars

\* the exported takeSnapshotAndAnalyze called while a voice session is up
NextVision ==
  \/ ApiTakeSnapshotAndAnalyze
  \/ VisionResume
  \/ ChannelCallbacks

SpecVision == InitChat /\ [][NextVision]_vars

\* ------------------------------------------------- classifier specification
\* the words the texts under test are made of
Words ==
  {"Weather", "RAIN", "restaurant", "great", "Shop", "store", "price",
   "near", "me", "hello", "time", "order", "food", "proceed"}

RECURSIVE JoinWords(_)
JoinWords(ws) ==
  IF Len(ws) = 0 THEN ""
  ELSE IF Len(ws) = 1 THEN ws[1]
  ELSE ws[1] \o " " \o JoinWords(Tail(ws))

Texts == {JoinWords(ws) : ws \in UNION {[1..n -> Words] : n \in 0..MaxWords}}

\* the order states handleSend is applied under
ProbeOrderStates ==
  {EmptyOrderState,
   [EmptyOrderState EXCEPT !.awaitingResponse = Some(TRUE)],
   [EmptyOrderState EXCEPT !.awaitingResponse = Some(TRUE),
                           !.selectedItems = Some(<<"dish">>)]}

InitText ==
  /\ InitSession
  /\ InitScreen
  /\ probe \in Texts

Apply(fn, out) ==
  /\ last' = Note(fn, probe, 0, out)
  /\ UNCHANGED <<connectStatus, peerConnection, dataChannel, localStreamRef,
                 messages, messageCounter, inCall, pcs, channels, streams,
                 sent, tasks, faults, escaped, calls, chatVars>>

ApplyContainsExternalQueryKeywords ==
  Apply("containsExternalQueryKeywords",
        IF containsExternalQueryKeywords(probe) THEN "true" ELSE "false")

ApplyGetQueryType == Apply("getQueryType", getQueryType(probe))

ApplyContainsAILookupIndicator ==
  Apply("containsAILookupIndicator",
        IF containsAILookupIndicator(probe) THEN "true" ELSE "false")

ApplySendRoute ==
  \E order \in ProbeOrderStates :
    Apply("handleSend", IF trim(probe) = "" THEN "empty"
                        ELSE SendRoute(Classify(trim(probe)), order))

ApplyResponseRoute ==
  Apply("handleAIResponse", ResponseRoute(Classify(probe)))

NextText ==
  \/ ApplyContainsExternalQueryKeywords
  \/ ApplyGetQueryType
  \/ ApplyContainsAILookupIndicator
  \/ ApplySendRoute
  \/ ApplyResponseRoute

SpecText == InitText /\ [][NextText]_vars

\* =================================================================== claims
Handles == <<peerConnection, dataChannel, localStreamRef>>
Objects == <<pcs, channels, streams>>
Created(objs) == {i \in Ids : objs[i] # "none"}
LastMessage == messages[Len(messages)]
Resumed(n, at, out) == n.op = "resume" /\ n.arg = at /\ n.out = out

\* C1: connectWebSocket called with status connecting or connected returns
\* without changing the status, without creating a peer connection, a data
\* channel or a stream, and without appending a message.
C1_ConnectWhileBusyIsNoOp ==
  [][(last'.op = "connect" /\ last'.arg # "notConnect")
       => UNCHANGED <<connectStatus, Handles, Objects, messages,
                      messageCounter, tasks, sent, inCall>>]_vars

C1_Witness ==
  /\ last.op = "connect" /\ last.arg = "connecting" /\ last.out = "ignored"
  /\ connectStatus = "connecting"
  /\ Len(tasks) = 1 /\ Running(1)

C3_PermissionDenied ==
  [][Resumed(last', "perm", "denied")
       => /\ connectStatus' = "notConnect"
          /\ tasks'[last'.task].pc = "done"
          /\ messages' = Append(messages, NewMessage(MsgPermission, FALSE, "text"))
          /\ UNCHANGED <<Handles, Objects>>
          /\ pcs'[last'.task] = "none"
          /\ channels'[last'.task] = "none"
          /\ streams'[last'.task] = "none"]_vars

C3_Witness ==
  /\ Resumed(last, "perm", "denied")
  /\ connectStatus = "notConnect"
  /\ Len(messages) = 1 /\ LastMessage.text = MsgPermission
  /\ Created(pcs) = {}

\* C4: a connect that passed the guard returns either with status connected,
\* after all its steps succeeded in source order and with no message appended,
\* or with status notConnect and one failure message appended; a step that
\* fails ends the connect, so it never returns with status connecting.
SuccessOutcomes == {"ok", "valid"}

C4_ConnectOutcome ==
  [][/\ \A t \in DOMAIN tasks :
          (tasks[t].pc # "done" /\ tasks'[t].pc = "done")
            => \/ /\ tasks'[t].result = "connected"
                  /\ tasks'[t].steps = AllSteps
                  /\ connectStatus' = "connected"
                  /\ messages' = messages
               \/ /\ tasks'[t].result = "failed"
                  /\ connectStatus' = "notConnect"
                  /\ Len(messages') = Len(messages) + 1
                  /\ messages'[Len(messages')].text \in ConnectFailureTexts
                  /\ ~messages'[Len(messages')].isUser
     /\ (last'.op = "resume" /\ last' # last
           /\ last'.out \notin SuccessOutcomes)
          => /\ tasks'[last'.task].pc = "done"
             /\ tasks'[last'.task].result = "failed"]_vars

C4_Witness ==
  /\ Resumed(last, "remote", "ok")
  /\ tasks[last.task].result = "connected"
  /\ tasks[last.task].steps = AllSteps
  /\ connectStatus = "connected"

\* C5: whenever no connect is mid-execution, the peer-connection and
\* data-channel handles are non-null exactly when the status is not
\* notConnect.
Quiescent == \A t \in DOMAIN tasks : tasks[t].pc = "done"

C5_HandlesIffNotIdle ==
  Quiescent =>
    ((peerConnection # 0 /\ dataChannel # 0) <=> connectStatus # "notConnect")

\* C6: every change of the status is notConnect->connecting,
\* connecting->connected, connecting->notConnect or connected->notConnect.
StatusEdges ==
  {<<"notConnect", "connecting">>, <<"connecting", "connected">>,
   <<"connecting", "notConnect">>, <<"connected", "notConnect">>}

C6_StatusTransitions ==
  [][connectStatus' # connectStatus
       => <<connectStatus, connectStatus'>> \in StatusEdges]_vars

\* C7: there is never more than one peer connection created and not closed.
C7_OneOpenPeerConnection ==
  Cardinality({i \in Ids : pcs[i] = "open"}) <= 1

\* C8: when disconnect returns the status is notConnect and the handles and
\* the stream reference are null, also when a teardown step raised.
C8_DisconnectForcesIdle ==
  [][last'.op = "disconnect"
       => /\ connectStatus' = "notConnect"
          /\ peerConnection' = 0
          /\ dataChannel' = 0
          /\ localStreamRef' = 0]_vars

\* C9: no exception leaves disconnect; a teardown step that raises is reported
\* by exactly one error message appended to the chat log.
C9_DisconnectNeverThrows ==
  [][last'.op = "disconnect"
       => /\ ~escaped'
          /\ messages' = IF last'.out = "none"
                           THEN messages
                           ELSE Append(messages,
                                       NewMessage(MsgDisconnect, FALSE, "text"))]_vars

C9_Witness ==
  /\ last.op = "disconnect" /\ last.out = "pcClose"
  /\ ~escaped
  /\ Len(messages) > 0 /\ LastMessage.text = MsgDisconnect

\* C10: a connect that resumes after disconnect or onclose reset the status
\* still stores its handles and still commits status connected.
C10_StaleConnectCommits ==
  [][(last'.op = "resume" /\ last' # last /\ tasks[last'.task].torn)
       => /\ Resumed(last', "media", "ok")
               => (peerConnection' = last'.task /\ dataChannel' = last'.task)
          /\ Resumed(last', "remote", "ok") => connectStatus' = "connected"]_vars

\* status connected after a completed disconnect, with no connect request since
C10_Witness ==
  /\ Resumed(last, "remote", "ok")
  /\ connectStatus = "connected"
  /\ Len(tasks) = 1 /\ tasks[1].torn
  /\ peerConnection = 1 /\ dataChannel = 1

\* C11: sendTextMessage on an open channel sends two messages, first a
\* conversation.item.create carrying the text and then a response.create, and
\* returns true; on a null or not open channel it sends nothing and returns
\* false; a send that raises makes it return false, and no exception leaves it.
C11_SendTextMessage ==
  [][last'.op = "sendTextMessage"
       => LET dc == last'.task
              open == dc # 0 /\ channels[dc] = "open"
              raised == faults' # faults
              new == SubSeq(sent', Len(sent) + 1, Len(sent'))
          IN /\ SubSeq(sent', 1, Len(sent)) = sent
             /\ ~escaped'
             /\ (open /\ ~raised)
                  => /\ last'.out = "true"
                     /\ Len(new) = 2
                     /\ new[1].type = "conversation.item.create"
                     /\ new[1].text = last'.arg
                     /\ new[2].type = "response.create"
                     /\ new[1].ch = dc /\ new[2].ch = dc
             /\ ~open => (new = <<>> /\ last'.out = "false")
             /\ raised => (last'.out = "false" /\ Len(new) <= 1)]_vars

C11_Witness ==
  /\ last.op = "sendTextMessage" /\ last.out = "true"
  /\ Len(sent) >= 3
  /\ sent[Len(sent) - 1].type = "conversation.item.create"
  /\ sent[Len(sent) - 1].text = last.arg
  /\ sent[Len(sent)].type = "response.create"

\* C12: for one completed assistant utterance, the handling of a received
\* utterance (handleAIResponse) runs at most once, also when several of the
\* three done events arrive with the text of that utterance.
C12_OneCallbackPerUtterance ==
  \A u \in Utterances :
    Cardinality({k \in DOMAIN jobs :
                   /\ jobs[k].kind = "handleOpenAIEvent"
                   /\ jobs[k].type \in DoneTypes
                   /\ jobs[k].text = u}) <= 1

\* C13: a payload that is not JSON and an event with an unrecognized type tag
\* raise no exception, append no message and change neither the chat log nor
\* the session state.
C13_DecoderIgnoresUnknown ==
  [][(last'.op = "onmessage" /\ last'.out \in {"parseError", "unhandled"})
       => /\ ~escaped'
          /\ UNCHANGED <<messages, messageCounter, connectStatus, Handles,
                         Objects, sent, inCall, tasks, inputText,
                         orderState>>]_vars

C13_Witness ==
  /\ last.op = "onmessage" /\ last.out = "parseError"
  /\ \E k \in DOMAIN jobs : jobs[k].type = "rate_limits.updated"
  /\ ~escaped
  /\ messages = <<>>

\* C14: the callbacks of the data channel (open, message, error, close) leave
\* the session status and the stored handles unchanged.
C14_CallbacksLeaveStatus ==
  [][last'.op \in {"onopen", "onmessage", "onerror", "onclose"}
       => UNCHANGED <<connectStatus, Handles>>]_vars

\* C15: no invocation of handleSend, handleOrderRequest or the inbound-event
\* handler begins while another one is suspended at an awaited call.
HandlerKinds == {"handleSend", "handleOrderRequest", "handleOpenAIEvent"}

C15_HandlersSerialized ==
  [][(Len(jobs') > Len(jobs) /\ jobs'[Len(jobs')].kind \in HandlerKinds)
       => \A k \in DOMAIN jobs :
            jobs[k].kind \in HandlerKinds => jobs[k].pc = "done"]_vars

\* C16: the id counters of the messages in the log are strictly increasing in
\* log order (so pairwise distinct); a clear empties the log and resets the
\* counter to 0, and the message appended next carries counter 1.
C16_IdsIncrease ==
  [][/\ \A i, j \in DOMAIN messages' :
          i < j => messages'[i].id < messages'[j].id
     /\ last'.op = "clearChat"
          => (messages' = <<>> /\ messageCounter' = 0)
     /\ (messageCounter = 0 /\ messageCounter' > 0)
          => \E i \in DOMAIN messages' : messages'[i].id = 1]_vars

\* a message with counter 1 in a log that was cleared after a handler had
\* appended to it
C16_Witness ==
  /\ Len(jobs) = 2
  /\ jobs[1].kind = "handleSend"
  /\ jobs[2].kind = "handleClearChat"
  /\ last.op = "resumeJob" /\ last.task = 1
  /\ Len(messages) = 1 /\ messages[1].id = 2
  /\ messageCounter = 2

\* C17: apart from a clear, every step leaves the previous log as a prefix of
\* the new log.
C17_AppendOnly ==
  [][last'.op # "clearChat"
       => /\ Len(messages') >= Len(messages)
          /\ SubSeq(messages', 1, Len(messages)) = messages]_vars

\* C18: containsExternalQueryKeywords(T) is true exactly when a keyword of the
\* external-query list occurs in the lower-cased T, and the tests handleSend
\* and handleAIResponse make give that same result.
CharAt(s, i) == SubSeq(s, i, i)

Occurs(k, s) ==
  \E p \in 1..Len(s) :
    /\ p + Len(k) - 1 <= Len(s)
    /\ \A q \in 1..Len(k) : CharAt(s, p + q - 1) = CharAt(k, q)

OccursAny(ks, s) == \E k \in ks : Occurs(k, toLowerCase(s))

Range(f) == {f[i] : i \in DOMAIN f}

C18_ExternalQueryPredicate ==
  LET expected == OccursAny(Range(ExternalQueryKeywords), probe)
  IN /\ last.op = "containsExternalQueryKeywords"
          => (last.out = "true" <=> expected)
     /\ last.op = "handleAIResponse"
          => (last.out = "augment" <=> expected)
     /\ (last.op = "handleSend" /\ last.out \in {"external", "llama"})
          => (last.out = "external" <=> expected)

C18_Witness ==
  /\ last.op = "containsExternalQueryKeywords"
  /\ probe = "Weather"
  /\ last.out = "true"

\* C19: getQueryType returns one of weather, restaurant, shop, general:
\* weather when a weather keyword occurs, restaurant when a restaurant keyword
\* and no weather keyword occurs, shop when a shop keyword and no weather or
\* restaurant keyword occurs, general otherwise.
WeatherKeywords ==
  {"weather", "temperature", "forecast", "rain", "sunny", "cloudy"}
RestaurantKeywords == {"restaurant", "cafe", "diner", "eat", "food", "dining"}
ShopKeywords == {"shop", "store", "mall", "buy", "purchase", "product"}

C19_QueryTypePrecedence ==
  last.op = "getQueryType"
    => LET w == OccursAny(WeatherKeywords, probe)
           r == OccursAny(RestaurantKeywords, probe)
           s == OccursAny(ShopKeywords, probe)
       IN /\ last.out \in {"weather", "restaurant", "shop", "general"}
          /\ w => last.out = "weather"
          /\ (r /\ ~w) => last.out = "restaurant"
          /\ (s /\ ~w /\ ~r) => last.out = "shop"
          /\ (~w /\ ~r /\ ~s) => last.out = "general"

C19_Witness ==
  /\ last.op = "getQueryType"
  /\ probe = "Weather restaurant"
  /\ last.out = "weather"

\* C20: an assistant utterance "I will check Q and get back to you soon" that
\* arrives in a done event is augmented with an external query, for every Q.
C20_DeferralIntercepted ==
  [][(/\ last'.op = "onmessage"
      /\ jobs'[last'.task].type \in DoneTypes
      /\ \E q \in Questions : jobs'[last'.task].text = DeferralPhrase(q))
       => last'.out = "augment"]_vars

\* extractQueryFromAIResponse on the assistant's utterances, computed once
Extracted == [u \in Utterances |-> extractQueryFromAIResponse(u)]

\* C21: when an utterance "I will check <topic> and get back to you ..."
\* triggers augmentation, the query passed to the search collaborator is the
\* topic extractQueryFromAIResponse extracts, not the whole utterance.
C21_QueryIsTopic ==
  [][(last'.op = "onmessage" /\ last'.out = "augment")
       => LET job == jobs'[last'.task]
          IN /\ job.query = Extracted[job.text]
             /\ job.query # job.text]_vars

\* the steps that end an augmentation: the continuation of a handler after
\* the search collaborator has answered
AugmentationEnds ==
  last'.op = "resumeJob" /\ last'.arg \in {"external", "augment"}

\* C22: when the search collaborator answers with status 500, the message the
\* augmenter yields has the fixed apology text of formatExternalQueryResponse
\* and a null payload, and no exception has left the augmenter.
C22_ServerErrorApology ==
  [][(AugmentationEnds /\ last'.out = "http500")
       => LET new == messages'[Len(messages')]
          IN /\ fetchExternalQueryResponse(last'.out) # "throw"
             /\ new.text = MsgNotRetrieved
             /\ new.type = "external_query"
             /\ new.data = "null"]_vars

\* C23: every augmentation, successful or not, ends with exactly one new
\* message of kind external_query that carries a text and, unmodified, the
\* answer of the search collaborator.
C23_AugmentationMessage ==
  [][AugmentationEnds
       => LET new == messages'[Len(messages')]
          IN /\ messageCounter' = messageCounter + 1
             /\ new.id = messageCounter'
             /\ new.type = "external_query"
             /\ new.text # ""
             /\ new.data = fetchExternalQueryResponse(last'.out)]_vars

\* the finalized-instructions message
MsgFinal == MsgOrderComplete \o CookingInstructions

\* the continuation of a handleSend that asked for cooking instructions for
\* a message containing "no allergies", after the instructions have arrived
NoAllergiesCompletes ==
  /\ last'.op = "resumeJob" /\ last'.arg = "cooking" /\ last'.out = "ok"
  /\ isNoAllergiesResponse(jobs[last'.task].text)

\* C24: after an item selection, a message containing "no allergies" leaves
\* exactly one new finalized-instructions message at the end of the log, the
\* processing placeholder of that send is gone, and awaitingResponse is false
\* once the send has completed.
C24_NoAllergiesFinalizes ==
  [][NoAllergiesCompletes
       => LET job == jobs[last'.task]
              n == Len(messages')
          IN /\ n > 0 /\ messages'[n].text = MsgFinal
             /\ messages'[n].id = messageCounter + 1
             /\ \A i \in DOMAIN messages' : messages'[i].id # job.placeholder
             /\ orderState'.awaitingResponse = Some(FALSE)]_vars

\* a send while the order flow is awaiting clarification, of a text that
\* matches isOrderResponseMessage
ClarificationSent ==
  /\ last'.op = "send" /\ last'.out # "empty"
  /\ Truthy(orderState.awaitingResponse)
  /\ Classified[last'.arg].isOrderResponseMessage

\* the responses accumulated so far
Accumulated(order) ==
  IF order.userResponses = Undefined THEN <<>> ELSE Value(order.userResponses)

\* C25: while the order flow awaits clarification, however it was entered, a
\* user message matching isOrderResponseMessage is appended to the accumulated
\* responses, and in that turn final instructions are requested for the
\* selection with all accumulated responses.
C25_ClarificationGenerates ==
  [][ClarificationSent
       => LET job == jobs'[last'.task]
              all == Append(Accumulated(orderState), last'.arg)
          IN /\ orderState'.userResponses = Some(all)
             /\ job.pc = "cooking"
             /\ job.items = orderState.selectedItems
             /\ job.prefs = all]_vars

\* a bare order command: a send that takes the order branch of handleSend
\* while a selection is remembered
BareOrderCommand ==
  /\ last'.op = "send" /\ last'.out = "order"
  /\ NonEmpty(orderState.lastSelectedItems)

\* C26: when final instructions have been produced, awaitingResponse is false
\* and lastSelectedItems is the finalized selection; a later bare order
\* command re-enters awaiting clarification with the remembered selection and
\* an empty response list, and requests no instructions in that turn.
C26_SelectionRemembered ==
  [][/\ (last'.op = "resumeJob" /\ last'.arg = "cooking" /\ last'.out = "ok")
          => /\ orderState'.awaitingResponse = Some(FALSE)
             /\ orderState'.lastSelectedItems = jobs[last'.task].items
     /\ BareOrderCommand
          => /\ orderState'.selectedItems = orderState.lastSelectedItems
             /\ orderState'.lastSelectedItems = orderState.lastSelectedItems
             /\ orderState'.awaitingResponse = Some(TRUE)
             /\ orderState'.userResponses = Some(<<>>)
             /\ jobs'[last'.task].pc = "order"]_vars

\* C27: no message is sent on a data channel whose readyState is not open at
\* the moment of the send.
C27_SendsOnOpenChannel ==
  \A i \in DOMAIN sent : sent[i].readyState = "open"

\* the mode the claim assigns to a text under an order state
ModeByPriority(text, order) ==
  IF Truthy(order.awaitingResponse) /\ isOrderResponseMessage(text)
    THEN "orderResponse"
  ELSE IF containsOrderKeywords(text) THEN "order"
  ELSE IF containsExternalQueryKeywords(text) THEN "external"
  ELSE "chat"

\* the mode a collaborator call belongs to, and the assistant lines each mode
\* shows while its call is in flight
ModeOfCall ==
  [cooking |-> "orderResponse", followUp |-> "orderResponse",
   order |-> "order", external |-> "external", llama |-> "chat"]

ModeLines ==
  [orderResponse |-> {MsgCookingNoAllergies, MsgCookingCustom},
   order |-> {MsgOrderStart}, external |-> {MsgLooking},
   chat |-> {MsgThinking}]

\* C28: a send of a non-empty text enters exactly one mode, the first that
\* applies of: order response (the order flow awaits clarification and the text
\* is an order response), order command, external query, plain chat; the
\* user's message is appended before any assistant message of the turn; a send
\* of an empty or blank input changes nothing.
C28_OneModeByPriority ==
  [][last'.op = "send"
       => LET text == trim(inputText)
              new == SubSeq(messages', Len(messages) + 1, Len(messages'))
              started == SubSeq(jobs', Len(jobs) + 1, Len(jobs'))
          IN IF text = ""
               THEN UNCHANGED <<messages, messageCounter, inputText,
                                orderState, jobs, sent>>
               ELSE LET mode == ModeByPriority(text, orderState)
                    IN /\ SubSeq(messages', 1, Len(messages)) = messages
                       /\ SubSeq(jobs', 1, Len(jobs)) = jobs
                       /\ Len(new) >= 1
                       /\ new[1].isUser /\ new[1].text = text
                       /\ \A i \in 2..Len(new) :
                            ~new[i].isUser /\ new[i].text \in ModeLines[mode]
                       /\ Len(started) = 1
                       /\ started[1].pc \in DOMAIN ModeOfCall
                       /\ ModeOfCall[started[1].pc] = mode]_vars

\* a text that is an order response, an order command and an external query
\* at once was sent while the order flow awaited clarification
C28_Witness ==
  /\ last.op = "send" /\ last.out = "followUp"
  /\ containsOrderKeywords(last.arg)
  /\ containsExternalQueryKeywords(last.arg)
  /\ Len(messages) >= 1
  /\ messages[Len(messages)].isUser
  /\ messages[Len(messages)].text = last.arg

\* a send of a blank input
C28_WitnessBlank ==
  /\ last.op = "send" /\ last.out = "empty" /\ last.arg = " "

\* the lines the handlers show while their collaborator call is in flight
LoadingLines ==
  {MsgCookingNoAllergies, MsgCookingCustom, MsgOrderStart, MsgLooking,
   MsgThinking}

\* C29: whenever the continuation of a handler removes a message from the
\* log, the message removed is the loading placeholder that this invocation
\* of the handler appended before its call; no message of the user and no
\* reply of the assistant is removed.
C29_RemovesOwnPlaceholder ==
  [][(/\ last'.op = "resumeJob"
      /\ SubSeq(messages', 1, Len(messages)) # messages)
       => LET removed == messages[Len(messages)]
          IN /\ removed.id = jobs[last'.task].placeholder
             /\ removed.text \in LoadingLines
             /\ ~removed.isUser]_vars

\* C30: whenever the status is notConnect and no connect is mid-execution, the
\* local stream reference is null and no acquired stream has a running track.
C30_NoStreamOutlivesSession ==
  (Quiescent /\ connectStatus = "notConnect")
    => (localStreamRef = 0 /\ \A i \in Ids : streams[i] # "live")

====
